---- MODULE Spec2Model ----
(***************************************************************************)
(* The order conversation of the SOMA order bot (src/app.py).              *)
(*                                                                         *)
(* A user's conversation is the state the ConversationHandler keeps for    *)
(* that user (conv) together with the user's user_data dictionary, which   *)
(* holds the order draft ("order") and the staged item ("current_item").   *)
(* One action models the whole dispatch of one update: the group 0         *)
(* handlers first, then the conversation handler of group 1.               *)
(*                                                                         *)
(* Texts typed by the user are sequences of one-character strings, so that *)
(* strip(), lower(), the phone pattern and int() are computed, not         *)
(* assumed.  Callback data (the tokens of the buttons) are plain strings.  *)
(***************************************************************************)
EXTENDS Integers, Sequences, FiniteSets, TLC

VARIABLES conv,        \* user -> state of the ConversationHandler (END: none)
          user_data,   \* user -> [order, current_item], each <<>> or <<value>>
          nextId,      \* the next fresh order_id (uuid4 is modelled as fresh)
          last,        \* the update dispatched last and what handled it
          out,         \* the messages sent while dispatching the last update
          sink,        \* the calls made to the worksheet by the last update
          savedIds,    \* the order_ids _save_and_finish has been invoked for
          arg,         \* the text a helper is applied to, when checked alone
          result       \* <<>>, or <<what the helper returned for arg>>

vars == <<conv, user_data, nextId, last, out, sink, savedIds, arg, result>>

----------------------------------------------------------------------------
(* Bounds of the model.                                                    *)

\* order_start may run this many times in one behaviour.
MaxOrders == 2

\* The cart loop may append this many items to one draft.
MaxItems == 2

----------------------------------------------------------------------------
(* Conversation states, src/app.py line 85, and ConversationHandler.END.   *)

ASK_NAME == 0
ASK_PHONE == 1
ASK_ITEM == 2
ASK_QTY == 3
ASK_MORE == 4
CONFIRM == 5
ASK_DELIVERY_METHOD == 6
ASK_DELIVERY_ADDRESS == 7
END == -1

States == {ASK_NAME, ASK_PHONE, ASK_ITEM, ASK_QTY, ASK_MORE, CONFIRM,
           ASK_DELIVERY_METHOD, ASK_DELIVERY_ADDRESS}

----------------------------------------------------------------------------
(* The catalog.                                                            *)

Catalog == {"Cedar Veil", "Musk Reverie", "Mythos Blanc"}

PRICE_MAP == [p \in Catalog |-> 79]

\* float(PRICE_MAP.get(item, 0.0)); 79.0 and 0.0 are written 79 and 0.
PriceOf(item) == IF item \in Catalog THEN PRICE_MAP[item] ELSE 0

\* The callback data matched by the pattern ^INFO\| of group 0.
InfoTokens == {"INFO|Cedar Veil", "INFO|Musk Reverie", "INFO|Mythos Blanc"}

IsInfo(tok) == tok \in InfoTokens

----------------------------------------------------------------------------
(* Users.                                                                  *)

Users == {"u1", "u2"}

\* update.effective_user.username or update.effective_user.full_name
Handle(u) == IF u = "u1" THEN "@u1" ELSE "User Two"

----------------------------------------------------------------------------
(* Texts.  A text is a sequence of one-character strings.                  *)

Digits == <<"0", "1", "2", "3", "4", "5", "6", "7", "8", "9">>

IsDigit(c) == \E i \in 1..10 : Digits[i] = c

DigitVal(c) == (CHOOSE i \in 1..10 : Digits[i] = c) - 1

\* The whitespace of str.strip() and of \s that the model's texts can hold.
IsSpace(c) == c \in {" ", "\t", "\n"}

Uppers == <<"A", "B", "C", "D", "E", "F", "G", "H", "I", "J", "K", "L", "M",
            "N", "O", "P", "Q", "R", "S", "T", "U", "V", "W", "X", "Y", "Z">>

Lowers == <<"a", "b", "c", "d", "e", "f", "g", "h", "i", "j", "k", "l", "m",
            "n", "o", "p", "q", "r", "s", "t", "u", "v", "w", "x", "y", "z">>

LowerChar(c) ==
    IF \E i \in 1..26 : Uppers[i] = c
    THEN Lowers[CHOOSE i \in 1..26 : Uppers[i] = c]
    ELSE c

\* str.lower()
lower(s) == [i \in 1..Len(s) |-> LowerChar(s[i])]

SetMin(S) == CHOOSE x \in S : \A y \in S : x <= y

SetMax(S) == CHOOSE x \in S : \A y \in S : y <= x

\* str.strip(): drop the leading and the trailing whitespace.
strip(s) ==
    LET keep == {i \in 1..Len(s) : ~IsSpace(s[i])}
    IN  IF keep = {} THEN <<>> ELSE SubSeq(s, SetMin(keep), SetMax(keep))

\* PHONE_RE = ^\+?\d[\d\s\-]{6,}$ matched from the start of the text.
PHONE_RE(s) ==
    LET t == IF Len(s) > 0 /\ s[1] = "+" THEN Tail(s) ELSE s
    IN  /\ Len(t) >= 7
        /\ IsDigit(t[1])
        /\ \A i \in 2..Len(t) : IsDigit(t[i]) \/ IsSpace(t[i]) \/ t[i] = "-"

valid_phone(s) == PHONE_RE(strip(s))

RECURSIVE DecimalValue(_)
DecimalValue(ds) ==
    IF ds = <<>> THEN 0
    ELSE 10 * DecimalValue(SubSeq(ds, 1, Len(ds) - 1)) + DigitVal(ds[Len(ds)])

\* What int() accepts: optional whitespace around, an optional sign, then
\* digits, where single underscores may separate digits.
IntLiteralBody(b) ==
    /\ Len(b) > 0
    /\ IsDigit(b[1])
    /\ IsDigit(b[Len(b)])
    /\ \A i \in 1..Len(b) : IsDigit(b[i]) \/ b[i] = "_"
    /\ \A i \in 1..(Len(b) - 1) : ~(b[i] = "_" /\ b[i + 1] = "_")

\* clean_int: (True, int(txt)), or (False, None) when int() raises.
clean_int(txt) ==
    LET t    == strip(txt)
        sgn  == Len(t) > 0 /\ t[1] \in {"+", "-"}
        body == IF sgn THEN Tail(t) ELSE t
        mag  == DecimalValue(SelectSeq(body, IsDigit))
    IN  IF IntLiteralBody(body)
        THEN [ok |-> TRUE, val |-> IF sgn /\ t[1] = "-" THEN 0 - mag ELSE mag]
        ELSE [ok |-> FALSE, val |-> 0]

----------------------------------------------------------------------------
(* The order draft, user_data["order"], and what is made from it.          *)

\* A key of the draft that has not been assigned: for a text and for a
\* string.  The empty text "" is <<>>.
NoText == <<"<absent>">>
NoKey == "<absent>"

\* The clock, in seconds, when order_start runs for the k-th time.
now_utc_iso(k) == 1735689600 + k

\* The dictionary order_start stores.  uuid4 is modelled as a fresh number.
NewOrder(u, id, now) ==
    [order_id          |-> id,
     timestamp_utc     |-> now,
     telegram_username |-> Handle(u),
     items             |-> <<>>,
     customer_name     |-> NoText,
     phone             |-> NoText,
     delivery_method   |-> NoKey,
     delivery_address  |-> NoText]

\* user_data["current_item"] as item_chosen sets it.  draft is not a key of
\* the dictionary: it records the order_id of the draft the item was staged
\* for, which the code does not store.
StagedItem(item, id) == [name |-> item, price |-> PriceOf(item), draft |-> id]

\* cur = {**cur, "quantity": qty}
WithQuantity(cur, qty) ==
    [name |-> cur.name, price |-> cur.price, draft |-> cur.draft, quantity |-> qty]

RECURSIVE SumSubtotals(_)
\* sum(i["price"] * i["quantity"] for i in items)
SumSubtotals(items) ==
    IF items = <<>> THEN 0
    ELSE items[1].price * items[1].quantity + SumSubtotals(Tail(items))

\* RowOf with the columns of the unit price and the quantity exchanged.
RowOf_columns_swapped(o, i) ==
    [order_id          |-> o.order_id,
     timestamp_utc     |-> o.timestamp_utc,
     telegram_username |-> o.telegram_username,
     customer_name     |-> o.customer_name,
     phone             |-> IF o.phone = NoText THEN <<>> ELSE o.phone,
     delivery_method   |-> IF o.delivery_method = NoKey THEN "" ELSE o.delivery_method,
     delivery_address  |-> IF o.delivery_address = NoText THEN <<>> ELSE o.delivery_address,
     name              |-> i.name,
     price             |-> i.quantity,
     quantity          |-> i.price,
     status            |-> "NEW"]

\* The row _save_and_finish appends for the item i of the draft o.
RowOf(o, i) ==
    [order_id          |-> o.order_id,
     timestamp_utc     |-> o.timestamp_utc,
     telegram_username |-> o.telegram_username,
     customer_name     |-> o.customer_name,
     phone             |-> IF o.phone = NoText THEN <<>> ELSE o.phone,
     delivery_method   |-> IF o.delivery_method = NoKey THEN "" ELSE o.delivery_method,
     delivery_address  |-> IF o.delivery_address = NoText THEN <<>> ELSE o.delivery_address,
     name              |-> i.name,
     price             |-> i.price,
     quantity          |-> i.quantity,
     status            |-> "NEW"]

----------------------------------------------------------------------------
(* The Order Sink, as _save_and_finish uses it.                            *)

\* SinkCalls with the loop left after its first append_row.
SinkCalls_first_row_only(o, f) ==
    LET n == IF Len(o.items) > 1 THEN 1 ELSE Len(o.items)
        rows(k) == [j \in 1..k |-> RowOf(o, o.items[j])]
    IN  IF f = 0
        THEN [invoked |-> TRUE, passed |-> <<>>, written |-> 0, ok |-> FALSE,
              raised |-> 0]
        ELSE IF f <= n
        THEN [invoked |-> TRUE, passed |-> rows(f), written |-> f - 1, ok |-> FALSE,
              raised |-> f]
        ELSE [invoked |-> TRUE, passed |-> rows(n), written |-> n, ok |-> TRUE,
              raised |-> -1]

\* SinkCalls with the try inside the loop: a failed append_row is skipped and
\* the loop goes on with the next item.
SinkCalls_continues_after_failure(o, f) ==
    LET n == Len(o.items)
        rows(k) == [j \in 1..k |-> RowOf(o, o.items[j])]
    IN  IF f = 0
        THEN [invoked |-> TRUE, passed |-> <<>>, written |-> 0, ok |-> FALSE,
              raised |-> 0]
        ELSE IF f <= n
        THEN [invoked |-> TRUE, passed |-> rows(n), written |-> n - 1, ok |-> FALSE,
              raised |-> f]
        ELSE [invoked |-> TRUE, passed |-> rows(n), written |-> n, ok |-> TRUE,
              raised |-> -1]

\* The calls one run of _save_and_finish makes: get_worksheet is call 0 and
\* the append_row of the k-th item is call k.  f is the call that raises
\* (a value above the number of items: none does).  A row whose append_row
\* raises counts as passed to the sink and not written.  Building a row of a
\* draft without customer_name raises KeyError before the row is passed.
\* raised is the call that raised (-1: none).
SinkCalls(o, f) ==
    LET n == Len(o.items)
        rows(k) == [j \in 1..k |-> RowOf(o, o.items[j])]
    IN  IF f = 0
        THEN [invoked |-> TRUE, passed |-> <<>>, written |-> 0, ok |-> FALSE,
              raised |-> 0]
        ELSE IF n > 0 /\ o.customer_name = NoText
        THEN [invoked |-> TRUE, passed |-> <<>>, written |-> 0, ok |-> FALSE,
              raised |-> 1]
        ELSE IF f <= n
        THEN [invoked |-> TRUE, passed |-> rows(f), written |-> f - 1, ok |-> FALSE,
              raised |-> f]
        ELSE [invoked |-> TRUE, passed |-> rows(n), written |-> n, ok |-> TRUE,
              raised |-> -1]

\* No call to the sink.
NoSink ==
    [invoked |-> FALSE, passed |-> <<>>, written |-> 0, ok |-> FALSE, raised |-> -1]

\* A message to the user: what it says, the order_id it shows (0: none) and
\* the total it shows (0: none).
Msg(kind, oid, total) == [kind |-> kind, oid |-> oid, total |-> total]

\* The reply that ends _save_and_finish.  The failure text is
\* "Failed to save your order. Error: {e}": it shows no order_id.
SaveReply(o, ok) ==
    IF ok THEN Msg("order_placed", o.order_id, 0) ELSE Msg("save_failed", 0, 0)

----------------------------------------------------------------------------
(* The updates the model sends.                                            *)

\* "Jane Doe", with a space to strip
TxtName == <<"J", "a", "n", "e", " ", "D", "o", "e", " ">>
\* "+65 9123 4567"
TxtPhone == <<"+", "6", "5", " ", "9", "1", "2", "3", " ", "4", "5", "6", "7">>
TxtOne == <<"1">>
TxtTwo == <<" ", "2">>
TxtZero == <<"0">>
TxtMinus == <<"-", "1">>
TxtYes == <<"Y", "E", "S">>
TxtNo == <<"n">>
TxtNoMixed == <<"N", "o", " ">>
TxtBlank == <<" ">>
\* "221B Baker St"
TxtAddress == <<"2", "2", "1", "B", " ", "B", "a", "k", "e", "r", " ", "S", "t">>

\* The texts sent in each state that reads a text: accepted ones and
\* rejected ones.
NameTexts == {TxtName, TxtBlank}
PhoneTexts == {TxtPhone, TxtName, TxtOne}
QtyTexts == {TxtOne, TxtTwo, TxtZero, TxtMinus, TxtName}
ConfirmTexts == {TxtYes, TxtNo, TxtNoMixed, TxtName}
AddressTexts == {TxtAddress, TxtBlank}

Texts == NameTexts \cup PhoneTexts \cup QtyTexts \cup ConfirmTexts \cup AddressTexts

\* The callback data sent in each state that reads a callback query: the
\* buttons of the state's keyboard, and buttons still on the screen from
\* another keyboard (/perfume_list, an older prompt).
ItemTokens == {"Cedar Veil", "Mythos Blanc", "INFO|Cedar Veil"}
MoreTokens == {"more_yes", "more_no", "Cedar Veil"}
DeliveryTokens == {"DELIVERY_SELF", "DELIVERY_SHIP", "INFO|Cedar Veil"}

Tokens == ItemTokens \cup MoreTokens \cup DeliveryTokens

\* What the gateway does inside item_chosen, the one handler that catches a
\* gateway error: nothing raises, query.answer() raises, or
\* query.edit_message_text() raises.
Gateway == {"ok", "answer_raises", "edit_raises"}

----------------------------------------------------------------------------
(* Dispatch.                                                               *)

TypeOK ==
    /\ conv \in [Users -> States \cup {END}]
    /\ DOMAIN user_data = Users
    /\ nextId \in 1..(MaxOrders + 1)
    /\ savedIds \subseteq 1..MaxOrders

NoLast == [u |-> "", handler |-> "", from |-> END, tok |-> "", txt |-> <<>>]

\* The application after build_telegram_app: no conversation, no draft.
Started ==
    /\ conv = [u \in Users |-> END]
    /\ user_data = [u \in Users |-> [order |-> <<>>, current_item |-> <<>>]]
    /\ nextId = 1
    /\ last = NoLast
    /\ out = <<>>
    /\ sink = NoSink
    /\ savedIds = {}

Init ==
    /\ Started
    /\ arg = <<>>
    /\ result = <<>>

\* The update and the handler of the conversation that took it ("": none).
Handled(u, h, tok, txt) ==
    /\ last' = [u |-> u, handler |-> h, from |-> conv[u], tok |-> tok, txt |-> txt]
    /\ UNCHANGED <<arg, result>>

NoSinkCall == sink' = NoSink /\ UNCHANGED savedIds

\* user_data["order"] of u
Order(u) == user_data[u].order[1]

HasOrder(u) == user_data[u].order # <<>>

SetOrder(u, o) == user_data' = [user_data EXCEPT ![u].order = <<o>>]

\* group 0: perfume_info_callback answers the callback data ^INFO\|
InfoReply(tok) == IF IsInfo(tok) THEN <<Msg("perfume_info", 0, 0)>> ELSE <<>>

----------------------------------------------------------------------------
(* The handlers.  Each action is the dispatch of one update of user u.     *)

\* order_start that keeps the items of a draft already there.
order_start_keeps_items(u) ==
    /\ nextId <= MaxOrders
    /\ Handled(u, "order_start", "", <<>>)
    /\ SetOrder(u, [NewOrder(u, nextId, now_utc_iso(nextId)) EXCEPT
                      !.items = IF HasOrder(u) THEN Order(u).items ELSE <<>>])
    /\ nextId' = nextId + 1
    /\ conv' = [conv EXCEPT ![u] = ASK_NAME]
    /\ out' = <<Msg("ask_name", 0, 0)>>
    /\ NoSinkCall

\* order_start with the draft in one dictionary of the module instead of
\* context.user_data: every user's draft is replaced.
order_start_global_draft(u) ==
    /\ nextId <= MaxOrders
    /\ Handled(u, "order_start", "", <<>>)
    /\ user_data' = [v \in Users |->
                       [user_data[v] EXCEPT
                          !.order = <<NewOrder(u, nextId, now_utc_iso(nextId))>>]]
    /\ nextId' = nextId + 1
    /\ conv' = [conv EXCEPT ![u] = ASK_NAME]
    /\ out' = <<Msg("ask_name", 0, 0)>>
    /\ NoSinkCall

\* /order: the entry point, also taken in every state (allow_reentry).
order_start(u) ==
    /\ nextId <= MaxOrders
    /\ Handled(u, "order_start", "", <<>>)
    /\ SetOrder(u, NewOrder(u, nextId, now_utc_iso(nextId)))
    /\ nextId' = nextId + 1
    /\ conv' = [conv EXCEPT ![u] = ASK_NAME]
    /\ out' = <<Msg("ask_name", 0, 0)>>
    /\ NoSinkCall

\* cancel without the fallback of the conversation: group 0 alone replies.
cancel_without_fallback(u) ==
    /\ Handled(u, "cancel", "", <<>>)
    /\ out' = <<Msg("cancelled", 0, 0)>>
    /\ UNCHANGED <<conv, user_data, nextId>>
    /\ NoSinkCall

\* /cancel: the command handler of group 0 replies; in a conversation the
\* fallback of group 1 replies too and ends the conversation.
cancel(u) ==
    /\ Handled(u, "cancel", "", <<>>)
    /\ out' = IF conv[u] # END
              THEN <<Msg("cancelled", 0, 0), Msg("cancelled", 0, 0)>>
              ELSE <<Msg("cancelled", 0, 0)>>
    /\ conv' = [conv EXCEPT ![u] = END]
    /\ UNCHANGED <<user_data, nextId>>
    /\ NoSinkCall

\* /perfume_list: shows the INFO| buttons.
cmd_perfume_list(u) ==
    /\ Handled(u, "cmd_perfume_list", "", <<>>)
    /\ out' = <<Msg("perfume_list", 0, 0)>>
    /\ UNCHANGED <<conv, user_data, nextId>>
    /\ NoSinkCall

\* ASK_NAME: any text is the customer name.
ask_phone(u, txt) ==
    /\ conv[u] = ASK_NAME
    /\ Handled(u, "ask_phone", "", txt)
    /\ SetOrder(u, [Order(u) EXCEPT !.customer_name = strip(txt)])
    /\ conv' = [conv EXCEPT ![u] = ASK_PHONE]
    /\ out' = <<Msg("ask_phone", 0, 0)>>
    /\ UNCHANGED nextId
    /\ NoSinkCall

\* ask_item that validates the phone and does not store it.
ask_item_phone_not_stored(u, txt) ==
    /\ conv[u] = ASK_PHONE
    /\ Handled(u, "ask_item", "", txt)
    /\ IF ~valid_phone(strip(txt))
       THEN /\ out' = <<Msg("bad_phone", 0, 0)>>
            /\ UNCHANGED conv
       ELSE /\ conv' = [conv EXCEPT ![u] = ASK_ITEM]
            /\ out' = <<Msg("choose_perfume", 0, 0)>>
    /\ UNCHANGED <<user_data, nextId>>
    /\ NoSinkCall

\* ASK_PHONE: a valid phone is stored and the perfume keyboard is shown.
ask_item(u, txt) ==
    /\ conv[u] = ASK_PHONE
    /\ Handled(u, "ask_item", "", txt)
    /\ IF ~valid_phone(strip(txt))
       THEN /\ out' = <<Msg("bad_phone", 0, 0)>>
            /\ UNCHANGED <<conv, user_data>>
       ELSE /\ SetOrder(u, [Order(u) EXCEPT !.phone = strip(txt)])
            /\ conv' = [conv EXCEPT ![u] = ASK_ITEM]
            /\ out' = <<Msg("choose_perfume", 0, 0)>>
    /\ UNCHANGED nextId
    /\ NoSinkCall

\* ASK_ITEM: every callback query is taken as the item chosen.
item_chosen(u, tok, gw) ==
    /\ conv[u] = ASK_ITEM
    /\ Handled(u, "item_chosen", tok, <<>>)
    /\ user_data' =
         IF gw = "answer_raises" THEN user_data
         ELSE [user_data EXCEPT
                 ![u].current_item = <<StagedItem(tok, Order(u).order_id)>>]
    /\ IF gw = "ok"
       THEN /\ conv' = [conv EXCEPT ![u] = ASK_QTY]
            /\ out' = InfoReply(tok) \o <<Msg("selected", 0, 0)>>
       ELSE /\ conv' = [conv EXCEPT ![u] = END]
            /\ out' = InfoReply(tok) \o <<Msg("item_error", 0, 0)>>
    /\ UNCHANGED nextId
    /\ NoSinkCall

\* confirm with the guard qty < 0: the quantity 0 is accepted.
confirm_accepts_zero(u, txt) ==
    /\ conv[u] = ASK_QTY
    /\ Handled(u, "confirm", "", txt)
    /\ LET r   == clean_int(strip(txt))
           cur == user_data[u].current_item
           new == Append(Order(u).items, WithQuantity(cur[1], r.val))
       IN  IF ~r.ok \/ r.val < 0
           THEN /\ out' = <<Msg("bad_quantity", 0, 0)>>
                /\ UNCHANGED <<conv, user_data>>
           ELSE IF cur = <<>>
           THEN /\ out' = <<Msg("choose_first", 0, 0)>>
                /\ conv' = [conv EXCEPT ![u] = ASK_ITEM]
                /\ UNCHANGED user_data
           ELSE /\ user_data' =
                     [user_data EXCEPT
                        ![u].order = <<[Order(u) EXCEPT !.items = new]>>,
                        ![u].current_item = <<>>]
                /\ out' = <<Msg("added", 0, SumSubtotals(new))>>
                /\ conv' = [conv EXCEPT ![u] = ASK_MORE]
    /\ UNCHANGED nextId
    /\ NoSinkCall

\* confirm that puts the new item in front of the items of the draft.
confirm_prepends(u, txt) ==
    /\ conv[u] = ASK_QTY
    /\ Handled(u, "confirm", "", txt)
    /\ LET r   == clean_int(strip(txt))
           cur == user_data[u].current_item
           new == <<WithQuantity(cur[1], r.val)>> \o Order(u).items
       IN  IF ~r.ok \/ r.val <= 0
           THEN /\ out' = <<Msg("bad_quantity", 0, 0)>>
                /\ UNCHANGED <<conv, user_data>>
           ELSE IF cur = <<>>
           THEN /\ out' = <<Msg("choose_first", 0, 0)>>
                /\ conv' = [conv EXCEPT ![u] = ASK_ITEM]
                /\ UNCHANGED user_data
           ELSE /\ user_data' =
                     [user_data EXCEPT
                        ![u].order = <<[Order(u) EXCEPT !.items = new]>>,
                        ![u].current_item = <<>>]
                /\ out' = <<Msg("added", 0, SumSubtotals(new))>>
                /\ conv' = [conv EXCEPT ![u] = ASK_MORE]
    /\ UNCHANGED nextId
    /\ NoSinkCall

\* ASK_QTY: a positive quantity appends the staged item to the draft.
confirm(u, txt) ==
    /\ conv[u] = ASK_QTY
    /\ Handled(u, "confirm", "", txt)
    /\ LET r   == clean_int(strip(txt))
           cur == user_data[u].current_item
           new == Append(Order(u).items, WithQuantity(cur[1], r.val))
       IN  IF ~r.ok \/ r.val <= 0
           THEN /\ out' = <<Msg("bad_quantity", 0, 0)>>
                /\ UNCHANGED <<conv, user_data>>
           ELSE IF cur = <<>>
           THEN /\ out' = <<Msg("choose_first", 0, 0)>>
                /\ conv' = [conv EXCEPT ![u] = ASK_ITEM]
                /\ UNCHANGED user_data
           ELSE /\ user_data' =
                     [user_data EXCEPT
                        ![u].order = <<[Order(u) EXCEPT !.items = new]>>,
                        ![u].current_item = <<>>]
                /\ out' = <<Msg("added", 0, SumSubtotals(new))>>
                /\ conv' = [conv EXCEPT ![u] = ASK_MORE]
    /\ UNCHANGED nextId
    /\ NoSinkCall

\* The state ask_more returns for the callback data choice.
AfterMore(choice) == IF choice = "more_yes" THEN ASK_ITEM ELSE CONFIRM

\* ASK_MORE: more_yes shows the perfume keyboard again, everything else is
\* answered with the summary of the order.
ask_more(u, tok) ==
    /\ conv[u] = ASK_MORE
    /\ tok = "more_yes" => Len(Order(u).items) < MaxItems
    /\ Handled(u, "ask_more", tok, <<>>)
    /\ conv' = [conv EXCEPT ![u] = AfterMore(tok)]
    /\ out' = InfoReply(tok) \o
              IF tok = "more_yes"
              THEN <<Msg("choose_perfume", 0, 0)>>
              ELSE <<Msg("summary", 0, SumSubtotals(Order(u).items))>>
    /\ UNCHANGED <<user_data, nextId>>
    /\ NoSinkCall

\* finalize with the test of no and n turned around: no goes on to the
\* delivery method and yes ends.
finalize_no_goes_on(u, txt) ==
    /\ conv[u] = CONFIRM
    /\ Handled(u, "finalize", "", txt)
    /\ LET reply == lower(strip(txt))
       IN  IF reply \notin {<<"y", "e", "s">>, <<"y">>, <<"n", "o">>, <<"n">>}
           THEN /\ out' = <<Msg("bad_confirm", 0, 0)>>
                /\ UNCHANGED conv
           ELSE IF reply \notin {<<"n", "o">>, <<"n">>}
           THEN /\ out' = <<Msg("order_cancelled", 0, 0)>>
                /\ conv' = [conv EXCEPT ![u] = END]
           ELSE /\ out' = <<Msg("ask_delivery", 0, 0)>>
                /\ conv' = [conv EXCEPT ![u] = ASK_DELIVERY_METHOD]
    /\ UNCHANGED <<user_data, nextId>>
    /\ NoSinkCall

\* CONFIRM: yes or y asks for the delivery method, no or n ends.
finalize(u, txt) ==
    /\ conv[u] = CONFIRM
    /\ Handled(u, "finalize", "", txt)
    /\ LET reply == lower(strip(txt))
       IN  IF reply \notin {<<"y", "e", "s">>, <<"y">>, <<"n", "o">>, <<"n">>}
           THEN /\ out' = <<Msg("bad_confirm", 0, 0)>>
                /\ UNCHANGED conv
           ELSE IF reply \in {<<"n", "o">>, <<"n">>}
           THEN /\ out' = <<Msg("order_cancelled", 0, 0)>>
                /\ conv' = [conv EXCEPT ![u] = END]
           ELSE /\ out' = <<Msg("ask_delivery", 0, 0)>>
                /\ conv' = [conv EXCEPT ![u] = ASK_DELIVERY_METHOD]
    /\ UNCHANGED <<user_data, nextId>>
    /\ NoSinkCall

\* Write one row per item of the draft o of u and end the conversation;
\* pre are the messages the update was answered with before.
save_and_finish(u, o, f, pre) ==
    /\ f <= Len(o.items) + 1
    /\ sink' = SinkCalls(o, f)
    /\ savedIds' = savedIds \cup {o.order_id}
    /\ out' = pre \o <<SaveReply(o, SinkCalls(o, f).ok)>>
    /\ conv' = [conv EXCEPT ![u] = END]

\* ASK_DELIVERY_METHOD
delivery_method_chosen(u, tok, f) ==
    /\ conv[u] = ASK_DELIVERY_METHOD
    /\ Handled(u, "delivery_method_chosen", tok, <<>>)
    /\ UNCHANGED nextId
    /\ IF tok = "DELIVERY_SELF"
       THEN LET o == [Order(u) EXCEPT !.delivery_method = "SELF",
                                      !.delivery_address = <<>>]
            IN  /\ SetOrder(u, o)
                /\ save_and_finish(u, o, f, InfoReply(tok))
       ELSE IF tok = "DELIVERY_SHIP"
       THEN /\ SetOrder(u, [Order(u) EXCEPT !.delivery_method = "DELIVER"])
            /\ conv' = [conv EXCEPT ![u] = ASK_DELIVERY_ADDRESS]
            /\ out' = InfoReply(tok) \o <<Msg("ask_address", 0, 0)>>
            /\ NoSinkCall
       ELSE /\ out' = InfoReply(tok) \o <<Msg("bad_delivery", 0, 0)>>
            /\ UNCHANGED <<conv, user_data>>
            /\ NoSinkCall

\* delivery_address_received without the check of the empty address.
delivery_address_received_unchecked(u, txt, f) ==
    /\ conv[u] = ASK_DELIVERY_ADDRESS
    /\ Handled(u, "delivery_address_received", "", txt)
    /\ UNCHANGED nextId
    /\ LET o == [Order(u) EXCEPT !.delivery_address = strip(txt)]
       IN  /\ SetOrder(u, o)
           /\ save_and_finish(u, o, f, <<>>)

\* ASK_DELIVERY_ADDRESS
delivery_address_received(u, txt, f) ==
    /\ conv[u] = ASK_DELIVERY_ADDRESS
    /\ Handled(u, "delivery_address_received", "", txt)
    /\ UNCHANGED nextId
    /\ LET addr == strip(txt)
           o    == [Order(u) EXCEPT !.delivery_address = addr]
       IN  IF addr = <<>>
           THEN /\ out' = <<Msg("bad_address", 0, 0)>>
                /\ UNCHANGED <<conv, user_data>>
                /\ NoSinkCall
           ELSE /\ SetOrder(u, o)
                /\ save_and_finish(u, o, f, <<>>)

\* A text in a state that has no message handler (ASK_ITEM, ASK_MORE,
\* ASK_DELIVERY_METHOD, or no conversation): no handler runs.
text_unhandled(u, txt) ==
    /\ conv[u] \in {ASK_ITEM, ASK_MORE, ASK_DELIVERY_METHOD, END}
    /\ Handled(u, "", "", txt)
    /\ out' = <<>>
    /\ UNCHANGED <<conv, user_data, nextId>>
    /\ NoSinkCall

\* A callback query in a state that has no callback handler: only
\* perfume_info_callback of group 0 may run.
perfume_info_callback(u, tok) ==
    /\ conv[u] \notin {ASK_ITEM, ASK_MORE, ASK_DELIVERY_METHOD}
    /\ Handled(u, IF IsInfo(tok) THEN "perfume_info_callback" ELSE "", tok, <<>>)
    /\ out' = InfoReply(tok)
    /\ UNCHANGED <<conv, user_data, nextId>>
    /\ NoSinkCall

----------------------------------------------------------------------------
(* The specification: the conversation of one user.                        *)

Active == {"u1"}

Next ==
    \/ \E u \in Active : order_start(u)
    \/ \E u \in Active : cancel(u)
    \/ \E u \in Active : cmd_perfume_list(u)
    \/ \E u \in Active, txt \in NameTexts : ask_phone(u, txt)
    \/ \E u \in Active, txt \in PhoneTexts : ask_item(u, txt)
    \/ \E u \in Active, tok \in ItemTokens, gw \in Gateway : item_chosen(u, tok, gw)
    \/ \E u \in Active, txt \in QtyTexts : confirm(u, txt)
    \/ \E u \in Active, tok \in MoreTokens : ask_more(u, tok)
    \/ \E u \in Active, txt \in ConfirmTexts : finalize(u, txt)
    \/ \E u \in Active, tok \in DeliveryTokens, f \in 0..(MaxItems + 1) :
          delivery_method_chosen(u, tok, f)
    \/ \E u \in Active, txt \in AddressTexts, f \in 0..(MaxItems + 1) :
          delivery_address_received(u, txt, f)
    \/ \E u \in Active, txt \in {TxtName} : text_unhandled(u, txt)
    \/ \E u \in Active, tok \in {"INFO|Cedar Veil", "more_no"} : perfume_info_callback(u, tok)

Spec == Init /\ [][Next]_vars

----------------------------------------------------------------------------
(* Properties.                                                             *)

\* The last update ran _save_and_finish.
Saved == sink.invoked

\* The rows the last update passed to the sink.
Passed == {sink.passed[j] : j \in 1..Len(sink.passed)}

\* The items of the draft of u.
ItemsOf(u) == {Order(u).items[j] : j \in 1..Len(Order(u).items)}

\* The outcome messages of a finalization among the messages sent.
Outcomes == SelectSeq(out, LAMBDA m : m.kind \in {"order_placed", "save_failed"})

(* C1: in ASK_ITEM a callback data that is no product of the catalog is    *)
(* rejected (nothing is staged, the state is not ASK_QTY), so every item   *)
(* of a draft and every row passed to the sink names a product of the      *)
(* catalog at its catalog price.                                           *)
C1_OnlyCatalogItems ==
    /\ (last.handler = "item_chosen" /\ last.tok \notin Catalog) =>
          /\ conv[last.u] # ASK_QTY
          /\ \A c \in {user_data[last.u].current_item} :
                c = <<>> \/ c[1].name # last.tok
    /\ \A u \in Users : HasOrder(u) =>
          \A i \in ItemsOf(u) : i.name \in Catalog /\ i.price = PRICE_MAP[i.name]
    /\ \A r \in Passed : r.name \in Catalog /\ r.price = PRICE_MAP[r.name]

(* C2: whenever _save_and_finish runs, the draft it reads has a            *)
(* customer_name, a phone, at least one item and a delivery_method.        *)
C2_FinalizerPrecondition ==
    Saved =>
       /\ HasOrder(last.u)
       /\ Order(last.u).customer_name # NoText
       /\ Order(last.u).phone # NoText
       /\ Len(Order(last.u).items) >= 1
       /\ Order(last.u).delivery_method # NoKey

C2_Witness ==
    /\ Saved
    /\ sink.ok
    /\ Order(last.u).delivery_method = "DELIVER"
    /\ Len(Order(last.u).items) = 2

(* C3: in ASK_MORE only more_yes leads to ASK_ITEM, only more_no leads to  *)
(* CONFIRM, and every other callback data leaves the state ASK_MORE.       *)
C3_AskMoreReprompts ==
    last.handler = "ask_more" =>
       conv[last.u] = IF last.tok = "more_yes" THEN ASK_ITEM
                      ELSE IF last.tok = "more_no" THEN CONFIRM
                      ELSE ASK_MORE

(* C4: a user whose conversation has ended holds no draft.                 *)
C4_NoDraftAfterTermination ==
    \A u \in Users : conv[u] = END => user_data[u].order = <<>>

(* C5: /cancel is accepted in every state of a conversation and ends the   *)
(* conversation in that step, with no call to the sink and with a          *)
(* cancellation message.                                                   *)
C5_CancelTerminates ==
    /\ \A u \in Active : ENABLED cancel(u)
    /\ (last.handler = "cancel" /\ last.from # END) =>
          /\ conv[last.u] = END
          /\ ~Saved
          /\ \E j \in 1..Len(out) : out[j].kind = "cancelled"

C5_Witness ==
    /\ last.handler = "cancel"
    /\ last.from = ASK_DELIVERY_ADDRESS
    /\ conv[last.u] = END

(* C6: /order in any state leads to ASK_NAME with a new draft that has no  *)
(* items and no customer_name, phone or delivery fields; the items of a    *)
(* draft, the item staged in ASK_QTY and the rows passed to the sink all   *)
(* come from the draft in progress, never from an earlier one.             *)
C6_StartIsFresh ==
    /\ last.handler = "order_start" =>
          /\ conv[last.u] = ASK_NAME
          /\ Order(last.u).order_id = nextId - 1
          /\ Order(last.u).items = <<>>
          /\ Order(last.u).customer_name = NoText
          /\ Order(last.u).phone = NoText
          /\ Order(last.u).delivery_method = NoKey
          /\ Order(last.u).delivery_address = NoText
    /\ \A u \in Users : HasOrder(u) =>
          \A i \in ItemsOf(u) : i.draft = Order(u).order_id
    /\ \A u \in Users : conv[u] = ASK_QTY =>
          /\ user_data[u].current_item # <<>>
          /\ user_data[u].current_item[1].draft = Order(u).order_id
    /\ Saved =>
          /\ \A r \in Passed : r.order_id = Order(last.u).order_id
          /\ \A j \in 1..Len(sink.passed) :
                sink.passed[j].name = Order(last.u).items[j].name

\* /order in ASK_QTY: the item staged for the first draft is still in
\* user_data beside the second draft.
C6_Witness ==
    /\ last.handler = "order_start"
    /\ last.from = ASK_QTY
    /\ Order(last.u).order_id = 2
    /\ Len(user_data[last.u].current_item) = 1

(* C7: DELIVERY_SELF finalizes at once, DELIVERY_SHIP leads to             *)
(* ASK_DELIVERY_ADDRESS and finalization follows a non-empty stripped      *)
(* address; in every row passed to the sink the delivery_address is        *)
(* non-empty exactly when the delivery_method is DELIVER.                  *)
C7_AddressIffDeliver ==
    /\ \A r \in Passed : (r.delivery_address # <<>>) <=> (r.delivery_method = "DELIVER")
    /\ (last.handler = "delivery_method_chosen" /\ last.tok = "DELIVERY_SELF") =>
          Saved /\ conv[last.u] = END
    /\ (last.handler = "delivery_method_chosen" /\ last.tok = "DELIVERY_SHIP") =>
          ~Saved /\ conv[last.u] = ASK_DELIVERY_ADDRESS
    /\ (Saved /\ last.handler # "delivery_method_chosen") =>
          /\ last.handler = "delivery_address_received"
          /\ last.from = ASK_DELIVERY_ADDRESS
          /\ strip(last.txt) # <<>>
          /\ Order(last.u).delivery_method = "DELIVER"
          /\ Order(last.u).delivery_address = strip(last.txt)

C7_Witness ==
    /\ Len(sink.passed) = 2
    /\ sink.passed[2].delivery_method = "DELIVER"
    /\ sink.passed[2].delivery_address = strip(TxtAddress)

\* The last update chose self-collect for a draft of one catalog product.
OneItemSelfCollect ==
    /\ last.handler = "delivery_method_chosen"
    /\ last.from = ASK_DELIVERY_METHOD
    /\ last.tok = "DELIVERY_SELF"
    /\ Len(Order(last.u).items) = 1
    /\ Order(last.u).items[1].name \in Catalog

C9_OneRowPerItem ==
    (Saved /\ sink.ok) =>
       /\ Len(sink.passed) = Len(Order(last.u).items)
       /\ sink.written = Len(Order(last.u).items)
       /\ \A j \in 1..Len(sink.passed) :
             /\ sink.passed[j].order_id = Order(last.u).order_id
             /\ sink.passed[j].timestamp_utc = Order(last.u).timestamp_utc
             /\ sink.passed[j].telegram_username = Handle(last.u)
             /\ sink.passed[j].customer_name = Order(last.u).customer_name
             /\ sink.passed[j].phone = Order(last.u).phone
             /\ sink.passed[j].delivery_method = Order(last.u).delivery_method
             /\ sink.passed[j].delivery_address = Order(last.u).delivery_address
             /\ sink.passed[j].name = Order(last.u).items[j].name
             /\ sink.passed[j].price = Order(last.u).items[j].price
             /\ sink.passed[j].quantity = Order(last.u).items[j].quantity
             /\ sink.passed[j].status = "NEW"

\* Two different products, quantities 1 and 2, delivered.
C9_Witness ==
    /\ Saved
    /\ sink.ok
    /\ Len(sink.passed) = 2
    /\ sink.passed[1].name = "Cedar Veil"
    /\ sink.passed[1].quantity = 1
    /\ sink.passed[2].name = "Mythos Blanc"
    /\ sink.passed[2].quantity = 2
    /\ sink.passed[2].delivery_method = "DELIVER"

(* C10: a finalization sends exactly one outcome message and that message  *)
(* shows the order_id of the draft: the confirmation when every append     *)
(* succeeded, the failure notice when a sink call failed.                  *)
C10_OutcomeShowsOrderId ==
    Saved =>
       /\ Len(Outcomes) = 1
       /\ Outcomes[1].kind = IF sink.ok THEN "order_placed" ELSE "save_failed"
       /\ Outcomes[1].oid = Order(last.u).order_id

\* The draft, after a step, of the user whose update the step dispatched.
OrderAfter == user_data'[last'.u].order[1]

(* C11: when the k-th append_row of an order raises, exactly the first     *)
(* k-1 rows of the order are written, and when get_worksheet raises none   *)
(* is; no append follows the call that raised, the conversation has ended, *)
(* and _save_and_finish never runs again for an order_id it ran for.       *)
C11_FailureStopsTheOrder ==
    [][ /\ (sink'.invoked /\ ~sink'.ok) =>
              /\ conv'[last'.u] = END
              /\ sink'.raised \in 0..Len(OrderAfter.items)
              /\ Len(sink'.passed) = sink'.raised
              /\ sink'.written = IF sink'.raised = 0 THEN 0 ELSE sink'.raised - 1
              /\ \A j \in 1..Len(sink'.passed) :
                    sink'.passed[j] = RowOf(OrderAfter, OrderAfter.items[j])
        /\ sink'.invoked =>
              /\ OrderAfter.order_id \notin savedIds
              /\ savedIds' = savedIds \cup {OrderAfter.order_id}
        /\ ~sink'.invoked => savedIds' = savedIds
      ]_vars

\* The first append_row of an order of two items raised.
C11_Witness ==
    /\ Saved
    /\ sink.raised = 1
    /\ Len(Order(last.u).items) = 2
    /\ sink.written = 0
    /\ conv[last.u] = END

(* C12: an input error leaves the state, the draft and the staged item as *)
(* they were and is answered with a prompt to try again: an invalid phone  *)
(* in ASK_PHONE, a quantity that is no integer or not positive in ASK_QTY, *)
(* a reply other than yes, y, no, n (in any case) in CONFIRM, an empty     *)
(* address in ASK_DELIVERY_ADDRESS.                                        *)
C12_InputErrorReprompts ==
    [][ /\ (last'.handler = "ask_item" /\ ~valid_phone(last'.txt)) =>
              /\ last'.from = ASK_PHONE
              /\ out' = <<Msg("bad_phone", 0, 0)>>
              /\ UNCHANGED <<conv, user_data>>
        /\ (last'.handler = "confirm"
              /\ (~clean_int(strip(last'.txt)).ok \/ clean_int(strip(last'.txt)).val <= 0)) =>
              /\ last'.from = ASK_QTY
              /\ out' = <<Msg("bad_quantity", 0, 0)>>
              /\ UNCHANGED <<conv, user_data>>
        /\ (last'.handler = "finalize"
              /\ lower(strip(last'.txt)) \notin
                    {<<"y", "e", "s">>, <<"y">>, <<"n", "o">>, <<"n">>}) =>
              /\ last'.from = CONFIRM
              /\ out' = <<Msg("bad_confirm", 0, 0)>>
              /\ UNCHANGED <<conv, user_data>>
        /\ (last'.handler = "delivery_address_received" /\ strip(last'.txt) = <<>>) =>
              /\ last'.from = ASK_DELIVERY_ADDRESS
              /\ out' = <<Msg("bad_address", 0, 0)>>
              /\ UNCHANGED <<conv, user_data>>
        /\ (last'.handler \in {"ask_item", "confirm", "finalize",
                               "delivery_address_received"}
              /\ out'[1].kind \in {"bad_phone", "bad_quantity", "bad_confirm",
                                   "bad_address"}) =>
              /\ ~sink'.invoked
              /\ UNCHANGED <<conv, user_data>>
      ]_vars

\* The quantity 0 was refused with an item staged.
C12_Witness ==
    /\ last.handler = "confirm"
    /\ last.txt = TxtZero
    /\ conv[last.u] = ASK_QTY
    /\ Len(user_data[last.u].current_item) = 1
    /\ out = <<Msg("bad_quantity", 0, 0)>>

\* The sum of unit price times quantity over the first n of the items.
RECURSIVE TotalOfFirst(_, _)
TotalOfFirst(items, n) ==
    IF n = 0 THEN 0
    ELSE TotalOfFirst(items, n - 1) + items[n].price * items[n].quantity

(* C13: a pass of the loop ASK_ITEM, ASK_QTY, ASK_MORE appends exactly one *)
(* item to the end of the items of the draft: the product selected in      *)
(* ASK_ITEM with the positive quantity entered in ASK_QTY; no other step   *)
(* changes the items of a draft; the total of the summary shown on entry   *)
(* to CONFIRM is the sum of unit price times quantity over the items.      *)
C13_LoopAppendsOneItem ==
    [][ /\ (last'.handler = "item_chosen" /\ conv'[last'.u] = ASK_QTY) =>
              /\ user_data'[last'.u].current_item # <<>>
              /\ user_data'[last'.u].current_item[1].name = last'.tok
              /\ user_data'[last'.u].current_item[1].price = PriceOf(last'.tok)
        /\ \A u \in Users :
              (conv[u] = ASK_QTY /\ conv'[u] = ASK_QTY) =>
                 user_data'[u].current_item = user_data[u].current_item
        /\ (last'.handler = "confirm" /\ conv'[last'.u] = ASK_MORE) =>
              /\ conv[last'.u] = ASK_QTY
              /\ clean_int(strip(last'.txt)).val >= 1
              /\ Len(OrderAfter.items) = Len(Order(last'.u).items) + 1
              /\ SubSeq(OrderAfter.items, 1, Len(Order(last'.u).items))
                    = Order(last'.u).items
              /\ OrderAfter.items[Len(OrderAfter.items)].name
                    = user_data[last'.u].current_item[1].name
              /\ OrderAfter.items[Len(OrderAfter.items)].price
                    = user_data[last'.u].current_item[1].price
              /\ OrderAfter.items[Len(OrderAfter.items)].quantity
                    = clean_int(strip(last'.txt)).val
        /\ \A u \in Users :
              (/\ HasOrder(u)
               /\ user_data'[u].order # <<>>
               /\ user_data'[u].order[1].order_id = Order(u).order_id
               /\ ~(last'.u = u /\ last'.handler = "confirm" /\ conv'[u] = ASK_MORE)) =>
                 user_data'[u].order[1].items = Order(u).items
        /\ (last'.handler = "ask_more" /\ conv'[last'.u] = CONFIRM) =>
              /\ Len(out') >= 1
              /\ out'[Len(out')].kind = "summary"
              /\ out'[Len(out')].total
                    = TotalOfFirst(OrderAfter.items, Len(OrderAfter.items))
      ]_vars

\* The summary of Cedar Veil x 1 and Mythos Blanc x 2: 79 + 158.
C13_Witness ==
    /\ last.handler = "ask_more"
    /\ conv[last.u] = CONFIRM
    /\ Len(Order(last.u).items) = 2
    /\ Order(last.u).items[1].name = "Cedar Veil"
    /\ Order(last.u).items[1].quantity = 1
    /\ Order(last.u).items[2].name = "Mythos Blanc"
    /\ Order(last.u).items[2].quantity = 2
    /\ out[Len(out)].total = 237

\* The replies finalize takes as yes and as no.
SaysYes(txt) == lower(strip(txt)) \in {<<"y", "e", "s">>, <<"y">>}

SaysNo(txt) == lower(strip(txt)) \in {<<"n", "o">>, <<"n">>}

(* C14: no or n, in any case, at CONFIRM ends the conversation without a   *)
(* call to the sink; the sink is called only from the delivery step, the   *)
(* delivery step is entered only by yes or y at CONFIRM, and the draft is  *)
(* the same from CONFIRM to the call.                                      *)
C14_SinkOnlyAfterYes ==
    [][ /\ (last'.handler = "finalize" /\ SaysNo(last'.txt)) =>
              /\ conv'[last'.u] = END
              /\ ~sink'.invoked
              /\ savedIds' = savedIds
        /\ sink'.invoked =>
              /\ conv[last'.u] \in {ASK_DELIVERY_METHOD, ASK_DELIVERY_ADDRESS}
              /\ OrderAfter.order_id = Order(last'.u).order_id
        /\ \A u \in Users :
              (conv'[u] = ASK_DELIVERY_METHOD /\ conv[u] # ASK_DELIVERY_METHOD) =>
                 /\ conv[u] = CONFIRM
                 /\ last'.u = u
                 /\ last'.handler = "finalize"
                 /\ SaysYes(last'.txt)
                 /\ user_data'[u].order = user_data[u].order
        /\ \A u \in Users :
              (conv'[u] = ASK_DELIVERY_ADDRESS /\ conv[u] # ASK_DELIVERY_ADDRESS) =>
                 /\ conv[u] = ASK_DELIVERY_METHOD
                 /\ user_data'[u].order[1].order_id = Order(u).order_id
      ]_vars

\* "No " at CONFIRM: ended, nothing saved so far.
C14_Witness ==
    /\ last.handler = "finalize"
    /\ last.txt = TxtNoMixed
    /\ conv[last.u] = END
    /\ ~Saved
    /\ savedIds = {}
    /\ Len(Order(last.u).items) = 2

(* C15: in ASK_DELIVERY_METHOD every input that is neither of the two      *)
(* options, a text or another callback data, is answered with a prompt to  *)
(* choose again and leaves the state ASK_DELIVERY_METHOD.                  *)
C15_DeliveryMethodReprompts ==
    (/\ last.from = ASK_DELIVERY_METHOD
     /\ last.handler \in {"", "delivery_method_chosen"}
     /\ last.tok \notin {"DELIVERY_SELF", "DELIVERY_SHIP"}) =>
       /\ conv[last.u] = ASK_DELIVERY_METHOD
       /\ \E j \in 1..Len(out) : out[j].kind = "bad_delivery"

----------------------------------------------------------------------------
(* The helpers valid_phone and clean_int, each applied alone to a text.    *)

\* How many characters of a base text an input may differ in.
MaxEdits == 1

\* Base texts: the shortest phone number PHONE_RE takes, with and without
\* "+", the same one digit shorter, a phone number as it is typed, and
\* the empty text.
PhoneBases ==
    { <<"1", "2", "3", "4", "5", "6", "7">>,
      <<"+", "1", "2", "3", "4", "5", "6", "7">>,
      <<"1", "2", "3", "4", "5", "6">>,
      <<"+", "1", "2", "3", "4", "5", "6">>,
      TxtPhone,
      <<>> }

\* The characters an edit can put into a phone text.
PhoneChars == {"+", "-", " ", "\t", "\n", "0", "a", "."}

\* s with c in place of its i-th character
Subst(s, i, c) == [s EXCEPT ![i] = c]

\* s with c put in after its i-th character (i = 0: in front)
Insert(s, i, c) == SubSeq(s, 1, i) \o <<c>> \o SubSeq(s, i + 1, Len(s))

\* The texts at most k edits away from a text of S, an edit writing a
\* character of C over a character or between two.
RECURSIVE Edited(_, _, _)
Edited(S, C, k) ==
    IF k = 0 THEN S
    ELSE LET T == Edited(S, C, k - 1)
         IN  T \cup UNION { {Subst(s, i, c) : i \in 1..Len(s), c \in C}
                               \cup {Insert(s, i, c) : i \in 0..Len(s), c \in C}
                            : s \in T }

PhoneInputs == Edited(PhoneBases, PhoneChars, MaxEdits)

\* valid_phone(arg) is called and returns.
call_valid_phone ==
    /\ result = <<>>
    /\ result' = <<valid_phone(arg)>>
    /\ UNCHANGED <<conv, user_data, nextId, last, out, sink, savedIds, arg>>

InitPhone ==
    /\ Started
    /\ arg \in PhoneInputs
    /\ result = <<>>

NextPhone == call_valid_phone

SpecPhone == InitPhone /\ [][NextPhone]_vars

\* The phone numbers as the claim describes them: trimmed, an optional
\* leading "+", one digit, then six or more characters each a digit, a
\* space or a hyphen.
DescribedPhone(s) ==
    LET t == strip(s)
        b == IF Len(t) > 0 /\ t[1] = "+" THEN Tail(t) ELSE t
    IN  /\ Len(b) >= 7
        /\ IsDigit(b[1])
        /\ \A i \in 2..Len(b) : IsDigit(b[i]) \/ b[i] \in {" ", "-"}

(* C16: valid_phone(s) is true exactly for the texts that, trimmed, are an *)
(* optional "+", one digit and six or more digits, spaces or hyphens, and  *)
(* false for every other text, a tab or a newline between the digits       *)
(* included.                                                               *)
C16_ValidPhoneExact ==
    result # <<>> => result[1] = DescribedPhone(arg)

\* Outside the tab and the newline the description is exact.
DescribedPhoneButForTabAndNewline ==
    (result # <<>> /\ \A i \in 1..Len(strip(arg)) : strip(arg)[i] \notin {"\t", "\n"})
        => result[1] = DescribedPhone(arg)

----------------------------------------------------------------------------
(* The quantity of ASK_QTY.                                                *)

\* Base texts: literals of positive integers, plain, signed and with
\* leading zeros, one beyond 16 bits, zero, a negative literal, a word
\* and the empty text.
QtyBases ==
    { <<"1">>, <<"1", "2">>, <<"+", "2">>, <<"0", "0", "7">>,
      <<"1", "2", "3", "4", "5", "6", "7">>,
      <<"0">>, <<"-", "1">>, <<"x">>, <<>> }

\* The characters an edit can put into a quantity text.
QtyChars == {"+", "-", " ", "\t", "_", "0", "3", "a", "."}

QtyInputs == Edited(QtyBases, QtyChars, MaxEdits)

\* The first two statements of confirm: (ok, qty) of clean_int on the
\* trimmed text, taken for a failure when qty <= 0.
confirm_quantity(txt) ==
    LET r == clean_int(strip(txt))
    IN  IF ~r.ok \/ r.val <= 0 THEN [ok |-> FALSE, val |-> 0] ELSE r

\* clean_int(arg.strip()) is called and its result tested.
call_clean_int ==
    /\ result = <<>>
    /\ result' = <<confirm_quantity(arg)>>
    /\ UNCHANGED <<conv, user_data, nextId, last, out, sink, savedIds, arg>>

InitQty ==
    /\ Started
    /\ arg \in QtyInputs
    /\ result = <<>>

NextQty == call_clean_int

SpecQty == InitQty /\ [][NextQty]_vars

\* A base-10 integer literal: an optional sign, then one or more digits.
IsLiteral(t) ==
    LET b == IF Len(t) > 0 /\ t[1] \in {"+", "-"} THEN Tail(t) ELSE t
    IN  Len(b) > 0 /\ \A i \in 1..Len(b) : IsDigit(b[i])

\* The integer a base-10 literal stands for.
LiteralValue(t) ==
    IF t[1] = "-" THEN 0 - DecimalValue(Tail(t))
    ELSE IF t[1] = "+" THEN DecimalValue(Tail(t))
    ELSE DecimalValue(t)

\* Quantity parsing as the claim describes it.
DescribedQuantity(s) ==
    LET t == strip(s)
    IN  IF IsLiteral(t) /\ LiteralValue(t) > 0
        THEN [ok |-> TRUE, val |-> LiteralValue(t)]
        ELSE [ok |-> FALSE, val |-> 0]

(* C17: quantity parsing in ASK_QTY fails for every integer literal whose  *)
(* value is <= 0 and for every text that is not an integer literal, and    *)
(* succeeds with n for every base-10 literal of a positive integer n.      *)
C17_QuantityParsing ==
    result # <<>> => result[1] = DescribedQuantity(arg)

\* Outside the texts with an underscore the description is exact.
DescribedQuantityButForUnderscore ==
    (result # <<>> /\ \A i \in 1..Len(arg) : arg[i] # "_")
        => result[1] = DescribedQuantity(arg)

----------------------------------------------------------------------------
(* The specification of two users whose updates interleave.                *)

\* The webhook hands every update to the one application; the updates of
\* the two users arrive in any order.  Each user sends the inputs of one
\* kind per handler: a good and a bad text, a button of the keyboard.
NextTwo ==
    \/ \E u \in Users : order_start(u)
    \/ \E u \in Users : cancel(u)
    \/ \E u \in Users : cmd_perfume_list(u)
    \/ \E u \in Users : ask_phone(u, TxtName)
    \/ \E u \in Users, txt \in {TxtPhone, TxtName} : ask_item(u, txt)
    \/ \E u \in Users : item_chosen(u, "Cedar Veil", "ok")
    \/ \E u \in Users, txt \in {TxtOne, TxtZero} : confirm(u, txt)
    \/ \E u \in Users, tok \in {"more_yes", "more_no"} : ask_more(u, tok)
    \/ \E u \in Users, txt \in {TxtYes, TxtNo} : finalize(u, txt)
    \/ \E u \in Users, tok \in {"DELIVERY_SELF", "DELIVERY_SHIP"}, f \in {1, MaxItems + 1} :
          delivery_method_chosen(u, tok, f)
    \/ \E u \in Users, f \in {1, MaxItems + 1} : delivery_address_received(u, TxtAddress, f)
    \/ \E u \in Users : text_unhandled(u, TxtName)
    \/ \E u \in Users : perfume_info_callback(u, "INFO|Cedar Veil")

SpecTwo == Init /\ [][NextTwo]_vars

(* C18: dispatching an update of one user leaves the conversation state,   *)
(* the draft and the staged item of every other user unchanged, in any     *)
(* interleaving, and the rows passed to the sink for an order are built    *)
(* from the draft of the user who placed it alone.                         *)
C18_UsersIndependent ==
    [][/\ \A v \in Users \ {last'.u} :
             conv'[v] = conv[v] /\ user_data'[v] = user_data[v]
       /\ sink'.invoked =>
             \A j \in 1..Len(sink'.passed) :
                sink'.passed[j] = RowOf(OrderAfter, OrderAfter.items[j])]_vars

\* u2 places its order, begun first, after u1 has begun one and staged an
\* item in between.
C18_Witness ==
    /\ last.u = "u2"
    /\ Saved /\ sink.ok
    /\ Len(sink.passed) >= 1
    /\ sink.passed[1].order_id = 1
    /\ conv["u1"] = ASK_QTY
    /\ HasOrder("u1")
    /\ Order("u1").order_id = 2

(* C19: a callback query whose data starts with "INFO|", sent while an     *)
(* order is in progress, in any state, only shows the description: the     *)
(* conversation state, the draft and the staged item stay as they were.    *)
C19_InfoButtonOnlyShows ==
    [][(IsInfo(last'.tok) /\ conv[last'.u] # END) =>
          /\ conv' = conv
          /\ user_data' = user_data]_vars

\* The cancellation acknowledgments among the messages of the step.
Acknowledgments == {j \in 1..Len(out') : out'[j].kind = "cancelled"}

(* C20: one /cancel sent in a conversation is answered with exactly one    *)
(* cancellation acknowledgment, and a /cancel sent when no conversation is *)
(* active changes no conversation state.                                   *)
C20_CancelAcknowledgedOnce ==
    [][last'.handler = "cancel" =>
          /\ conv[last'.u] # END => Cardinality(Acknowledgments) = 1
          /\ conv[last'.u] = END => conv' = conv /\ user_data' = user_data]_vars

\* The second half alone: /cancel outside a conversation changes nothing
\* and is acknowledged once.
CancelOutsideConversation ==
    [][(last'.handler = "cancel" /\ conv[last'.u] = END) =>
          /\ conv' = conv /\ user_data' = user_data
          /\ Cardinality(Acknowledgments) = 1]_vars

====
